---- MODULE Spec2Model ----
(***************************************************************************)
(* A model of ag-tui (src/src/main.rs): the response decoder, the account  *)
(* status classifier, the aggregator, the table renderer and the poll      *)
(* loop.                                                                   *)
(*                                                                         *)
(* Representation.                                                         *)
(*  - Option<T>: None is [some |-> FALSE], Some(v) is [some |-> TRUE,      *)
(*    v |-> v].                                                            *)
(*  - Result<T>: Ok(v) is [ok |-> TRUE, v |-> v], Err is [ok |-> FALSE,    *)
(*    err |-> message].                                                    *)
(*  - HashMap<String, T>: a function whose domain is the set of keys.      *)
(*  - A JSON text is either not JSON at all or the text of one JSON value; *)
(*    a JSON value is a tagged record (string, number, bool, null, array,  *)
(*    object).  An object keeps its members in textual order, duplicates   *)
(*    and unknown keys included, because serde's derived deserializers     *)
(*    read them in that order.                                             *)
(*  - f64 remaining fractions are fixed-point numbers in thousandths       *)
(*    (500 is 0.5); products are exact in the model.                       *)
(*  - Instants and durations are in milliseconds.                          *)
(*  - A String is modelled by what the program does with it: a name, an    *)
(*    email or a timestamp label is a TLA+ string; the wrapper's result is *)
(*    a text; a reset time is the sequence of its characters.              *)
(*  - An RFC3339 string is the sequence of its characters, restricted to   *)
(*    the form DDTHH:MM:SS.mmm followed by Z or +HH:00 or -HH:00 (year and *)
(*    month are the same in every string and left out).                    *)
(***************************************************************************)
EXTENDS Integers, Sequences, FiniteSets, TLC

VARIABLES
    pc,         \* poll loop (main): "fetching", "waiting" or "exited"
    once,       \* Args.once
    interval,   \* Args.interval
    cycles,     \* completed loop bodies (fetch + print)
    waits,      \* completed sleeps
    slept,      \* seconds slept so far
    body,       \* what the last fetch got: transport outcome and response text
    decoded,    \* fetch_data's result for it
    screen,     \* what the last cycle printed: "none", "table" or "error"
    snapshot,   \* the ApiResponse handed to print_table
    now,        \* Utc::now() at rendering
    out         \* what the renderer computed from the snapshot

vars == <<pc, once, interval, cycles, waits, slept, body, decoded, screen,
          snapshot, now, out>>

-----------------------------------------------------------------------------
(* Bounds *)

MaxCycles == 3
MaxInterval == 2
MaxAccounts == 2
MaxModels == 2

-----------------------------------------------------------------------------
(* Option and Result *)

None == [some |-> FALSE]
Some(x) == [some |-> TRUE, v |-> x]
Ok(x) == [ok |-> TRUE, v |-> x]
Err(msg) == [ok |-> FALSE, err |-> msg]

\* Option::unwrap_or
UnwrapOr(o, d) == IF o.some THEN o.v ELSE d

-----------------------------------------------------------------------------
(* JSON texts and values *)

JStr(chars) == [t |-> "string", chars |-> chars]
\* A JSON string whose characters are themselves the given text (a payload
\* "serialized as a JSON string").
JStrOfText(text) == [t |-> "string", text |-> text]
JNum(n) == [t |-> "number", n |-> n]
JBool(b) == [t |-> "bool", b |-> b]
JNull == [t |-> "null"]
JArr(items) == [t |-> "array", items |-> items]
JObj(members) == [t |-> "object", members |-> members]
Member(k, x) == [key |-> k, value |-> x]

\* The text of a JSON value, and a text that is not JSON.
JsonText(x) == [json |-> TRUE, value |-> x]
NotJson(raw) == [json |-> FALSE, raw |-> raw]

\* The characters of a JSON string, as the String serde hands over, and the
\* same characters read as a text (serde_json::from_str on that String).
StringOf(x) == IF "text" \in DOMAIN x THEN x.text ELSE x.chars
TextOf(x) == IF "text" \in DOMAIN x THEN x.text ELSE NotJson(x.chars)

\* The values of the members of an object that carry key k, in order.
Values(members, k) ==
    LET hit == SelectSeq(members, LAMBDA m : m.key = k)
    IN  [i \in 1..Len(hit) |-> hit[i].value]

-----------------------------------------------------------------------------
(* serde: the derived Deserialize implementations (main.rs 25-64) *)

SerdeErr == Err("serde_json error")

\* The members of an object that carry key k: how many, and the first value.
Field(members, k) ==
    LET vs == Values(members, k)
    IN  [count |-> Len(vs), value |-> IF Len(vs) > 0 THEN vs[1] ELSE JNull,
         last |-> IF Len(vs) > 0 THEN vs[Len(vs)] ELSE JNull]

\* A field of a struct read from an object, given what its value parses to:
\* a key seen twice is an error, a key never seen is an error for a required
\* field and None for an Option.
Required(field, parsed) == IF field.count = 1 THEN parsed ELSE SerdeErr
Optional(field, parsed) ==
    IF field.count = 0 THEN Ok(None)
    ELSE IF field.count = 1 THEN parsed ELSE SerdeErr

ParseString(x) == IF x.t = "string" THEN Ok(StringOf(x)) ELSE SerdeErr
\* A String field that the program parses again as JSON (wrapper.result).
ParseStringAsText(x) == IF x.t = "string" THEN Ok(TextOf(x)) ELSE SerdeErr
ParseBool(x) == IF x.t = "bool" THEN Ok(x.b) ELSE SerdeErr
ParseF64(x) == IF x.t = "number" THEN Ok(x.n) ELSE SerdeErr
ParseOptString(x) ==
    IF x.t = "null" THEN Ok(None)
    ELSE IF x.t = "string" THEN Ok(Some(StringOf(x))) ELSE SerdeErr
ParseOptBool(x) ==
    IF x.t = "null" THEN Ok(None)
    ELSE IF x.t = "bool" THEN Ok(Some(x.b)) ELSE SerdeErr
ParseOptU64(x) ==
    IF x.t = "null" THEN Ok(None)
    ELSE IF x.t = "number" /\ x.n >= 0 THEN Ok(Some(x.n)) ELSE SerdeErr

\* struct ModelRateLimit (main.rs 25-29)
ParseModelRateLimit(x) ==
    IF x.t # "object" THEN SerdeErr
    ELSE LET f == Field(x.members, "isRateLimited")
             r == Required(f, ParseBool(f.value))
         IN  IF r.ok THEN Ok([is_rate_limited |-> r.v]) ELSE SerdeErr

\* struct ModelQuota (main.rs 46-52)
ParseModelQuota(x) ==
    IF x.t # "object" THEN SerdeErr
    ELSE LET ff == Field(x.members, "remainingFraction")
             rf == Field(x.members, "resetTime")
             f == Required(ff, ParseF64(ff.value))
             r == Optional(rf, ParseOptString(rf.value))
         IN  IF f.ok /\ r.ok
             THEN Ok([remaining_fraction |-> f.v, reset_time |-> r.v])
             ELSE SerdeErr

\* The keys of an object read as a HashMap.
Keys(members) == {members[i].key : i \in 1..Len(members)}

\* Option<HashMap<String, ModelQuota>> (main.rs 36-37): every value is read,
\* a repeated key keeps the last one.
ParseLimits(x) ==
    IF x.t = "null" THEN Ok(None)
    ELSE IF x.t # "object" THEN SerdeErr
    ELSE IF \E i \in 1..Len(x.members) : ~ParseModelQuota(x.members[i].value).ok
    THEN SerdeErr
    ELSE Ok(Some([k \in Keys(x.members) |->
                     ParseModelQuota(Field(x.members, k).last).v]))

\* Option<HashMap<String, ModelRateLimit>> (main.rs 38-39)
ParseModelRateLimits(x) ==
    IF x.t = "null" THEN Ok(None)
    ELSE IF x.t # "object" THEN SerdeErr
    ELSE IF \E i \in 1..Len(x.members) : ~ParseModelRateLimit(x.members[i].value).ok
    THEN SerdeErr
    ELSE Ok(Some([k \in Keys(x.members) |->
                     ParseModelRateLimit(Field(x.members, k).last).v]))

\* struct Account (main.rs 31-44), read from an object (no response of the
\* model gives an account as an array of its fields).
ParseAccount(x) ==
    IF x.t # "object" THEN SerdeErr
    ELSE LET fe == Field(x.members, "email")
             fn == Field(x.members, "enabled")
             fl == Field(x.members, "limits")
             fr == Field(x.members, "modelRateLimits")
             fi == Field(x.members, "isInvalid")
             fu == Field(x.members, "lastUsed")
             email == Required(fe, ParseString(fe.value))
             enabled == Optional(fn, ParseOptBool(fn.value))
             limits == Optional(fl, ParseLimits(fl.value))
             rates == Optional(fr, ParseModelRateLimits(fr.value))
             invalid == Optional(fi, ParseOptBool(fi.value))
             used == Optional(fu, ParseOptU64(fu.value))
         IN  IF email.ok /\ enabled.ok /\ limits.ok /\ rates.ok /\ invalid.ok /\ used.ok
             THEN Ok([email |-> email.v, enabled |-> enabled.v, limits |-> limits.v,
                      model_rate_limits |-> rates.v, is_invalid |-> invalid.v,
                      last_used |-> used.v])
             ELSE SerdeErr

\* Vec<Account> (main.rs 62)
ParseAccounts(x) ==
    IF x.t # "array" THEN SerdeErr
    ELSE IF \E i \in 1..Len(x.items) : ~ParseAccount(x.items[i]).ok THEN SerdeErr
    ELSE Ok([i \in 1..Len(x.items) |-> ParseAccount(x.items[i]).v])

\* Vec<String> (main.rs 63)
ParseModels(x) ==
    IF x.t # "array" THEN SerdeErr
    ELSE IF \E i \in 1..Len(x.items) : ~ParseString(x.items[i]).ok THEN SerdeErr
    ELSE Ok([i \in 1..Len(x.items) |-> ParseString(x.items[i]).v])

\* serde_json::from_str::<ApiResponseWrapper> (main.rs 54-57, 160).  The
\* derived visitor ignores keys it does not know, and also reads the struct
\* from an array of its fields in order.
ParseWrapper(text) ==
    IF ~text.json THEN SerdeErr
    ELSE LET x == text.value
         IN  IF x.t = "object"
             THEN LET f == Field(x.members, "result")
                      r == Required(f, ParseStringAsText(f.value))
                  IN  IF r.ok THEN Ok([result |-> r.v]) ELSE SerdeErr
             ELSE IF x.t = "array" /\ Len(x.items) = 1 /\ x.items[1].t = "string"
             THEN Ok([result |-> TextOf(x.items[1])])
             ELSE SerdeErr

\* serde_json::from_str::<ApiResponse> (main.rs 59-64, 161, 163)
ParseApiResponse(text) ==
    IF ~text.json THEN SerdeErr
    ELSE LET x == text.value
         IN  IF x.t = "object"
             THEN LET ft == Field(x.members, "timestamp")
                      fa == Field(x.members, "accounts")
                      fm == Field(x.members, "models")
                      ts == Optional(ft, ParseOptString(ft.value))
                      as == Required(fa, ParseAccounts(fa.value))
                      ms == Required(fm, ParseModels(fm.value))
                  IN  IF ts.ok /\ as.ok /\ ms.ok
                      THEN Ok([timestamp |-> ts.v, accounts |-> as.v, models |-> ms.v])
                      ELSE SerdeErr
             ELSE IF x.t = "array" /\ Len(x.items) = 3
             THEN LET ts == ParseOptString(x.items[1])
                      as == ParseAccounts(x.items[2])
                      ms == ParseModels(x.items[3])
                  IN  IF ts.ok /\ as.ok /\ ms.ok
                      THEN Ok([timestamp |-> ts.v, accounts |-> as.v, models |-> ms.v])
                      ELSE SerdeErr
             ELSE SerdeErr

-----------------------------------------------------------------------------
(* fetch_data (main.rs 143-165) *)

\* main.rs 159-164: the wrapped form is tried first, the direct form second.
DecodeBody(text) ==
    LET wrapper == ParseWrapper(text)
    IN  IF wrapper.ok
        THEN LET inner == ParseApiResponse(wrapper.v.result)
             IN  IF inner.ok THEN inner ELSE Err("Failed to parse inner JSON")
        ELSE LET direct == ParseApiResponse(text)
             IN  IF direct.ok THEN direct ELSE Err("Failed to parse JSON")

\* A response is what send() and status() gave: "refused" (no connection or
\* a timeout), an HTTP status, and the text of the body.
FetchData(resp) ==
    IF resp.transport # "ok" THEN Err("Failed to connect to server")
    ELSE IF ~(resp.status >= 200 /\ resp.status < 300)
    THEN Err("Server returned error")
    ELSE DecodeBody(resp.text)

-----------------------------------------------------------------------------
(* HashMap iteration *)

Min2(a, b) == IF a <= b THEN a ELSE b

\* The orders in which a HashMap may hand out its entries: every
\* arrangement of its keys (the order depends on the hasher's random seed).
Orders(map) ==
    LET keys == DOMAIN map
        n == Cardinality(keys)
    IN  {o \in [1..n -> keys] : \A i, j \in 1..n : i # j => o[i] # o[j]}

\* map.values() under one iteration order
ValuesIn(map, order) == [i \in 1..Len(order) |-> map[order[i]]]

-----------------------------------------------------------------------------
(* chrono: RFC3339 strings, instants and durations *)

MsPerSecond == 1000
MsPerMinute == 60000
MsPerHour == 3600000

Digit(c) == c - 48
IsDigit(c) == c >= 48 /\ c <= 57
Num2(str, i) == Digit(str[i]) * 10 + Digit(str[i + 1])
Num3(str, i) == Digit(str[i]) * 100 + Digit(str[i + 1]) * 10 + Digit(str[i + 2])

\* DateTime::parse_from_rfc3339 (main.rs 90, 217) on DDTHH:MM:SS.mmm(Z|+HH:00|-HH:00):
\* the instant the string denotes, in milliseconds, or an error.
ParseRfc3339(str) ==
    LET n == Len(str)
        digitsAt == {1, 2, 4, 5, 7, 8, 10, 11, 13, 14, 15}
        shape == /\ n \in {16, 21}
                 /\ \A i \in digitsAt : IsDigit(str[i])
                 /\ str[3] = 84 /\ str[6] = 58 /\ str[9] = 58 /\ str[12] = 46
                 /\ \/ n = 16 /\ str[16] = 90
                    \/ /\ n = 21 /\ str[16] \in {43, 45}
                       /\ IsDigit(str[17]) /\ IsDigit(str[18]) /\ str[19] = 58
                       /\ IsDigit(str[20]) /\ IsDigit(str[21])
    IN  IF ~shape THEN Err("ParseError")
        ELSE LET day == Num2(str, 1)
                 hour == Num2(str, 4)
                 minute == Num2(str, 7)
                 second == Num2(str, 10)
                 milli == Num3(str, 13)
                 offset == IF n = 16 THEN 0
                           ELSE (IF str[16] = 45 THEN -1 ELSE 1)
                                * (Num2(str, 17) * MsPerHour + Num2(str, 20) * MsPerMinute)
                 inRange == /\ day >= 1 /\ day <= 31 /\ hour < 24 /\ minute < 60
                            /\ second < 60
                            /\ (n = 21 => Num2(str, 17) < 24 /\ Num2(str, 20) < 60)
             IN  IF ~inRange THEN Err("ParseError")
                 ELSE Ok(day * 24 * MsPerHour + hour * MsPerHour + minute * MsPerMinute
                         + second * MsPerSecond + milli - offset)

\* Ord for String (main.rs 215): byte-wise lexicographic order.
StrLess(a, b) ==
    \E i \in 1..(Min2(Len(a), Len(b)) + 1) :
        /\ \A j \in 1..(i - 1) : a[j] = b[j]
        /\ \/ i > Len(a) /\ i <= Len(b)
           \/ i <= Len(a) /\ i <= Len(b) /\ a[i] < b[i]

\* Duration::num_seconds, num_minutes, num_hours: whole units, truncated
\* toward zero.
TruncDiv(a, b) == IF a >= 0 THEN a \div b ELSE -((-a) \div b)
NumSeconds(d) == TruncDiv(d, MsPerSecond)
NumMinutes(d) == TruncDiv(d, MsPerMinute)
NumHours(d) == TruncDiv(d, MsPerHour)
\* Rust's % on i64: the remainder has the sign of the dividend.
Rem(a, b) == a - TruncDiv(a, b) * b

\* format_timestamp (main.rs 83-87): the instant shown to the second.
format_timestamp(ts) == [shown |-> "time", secs |-> ts \div MsPerSecond]

\* format_reset_time with the minutes not reduced modulo 60.
format_reset_time_total_minutes(reset_time, utcNow) ==
    LET dt == ParseRfc3339(reset_time)
    IN  IF dt.ok
        THEN LET duration == dt.v - utcNow
                 h == NumHours(duration)
                 m == NumMinutes(duration)
                 s == Rem(NumSeconds(duration), 60)
             IN  IF NumSeconds(duration) <= 0 THEN [kind |-> "now"]
                 ELSE IF h > 0 THEN [kind |-> "hms", h |-> h, m |-> m, s |-> s]
                 ELSE IF m > 0 THEN [kind |-> "ms", m |-> m, s |-> s]
                 ELSE [kind |-> "s", s |-> s]
        ELSE [kind |-> "verbatim", text |-> reset_time]

\* format_reset_time (main.rs 89-108), with Utc::now() as utcNow.
format_reset_time(reset_time, utcNow) ==
    LET dt == ParseRfc3339(reset_time)
    IN  IF dt.ok
        THEN LET duration == dt.v - utcNow
                 h == NumHours(duration)
                 m == Rem(NumMinutes(duration), 60)
                 s == Rem(NumSeconds(duration), 60)
             IN  IF NumSeconds(duration) <= 0 THEN [kind |-> "now"]
                 ELSE IF h > 0 THEN [kind |-> "hms", h |-> h, m |-> m, s |-> s]
                 ELSE IF m > 0 THEN [kind |-> "ms", m |-> m, s |-> s]
                 ELSE [kind |-> "s", s |-> s]
        ELSE [kind |-> "verbatim", text |-> reset_time]

-----------------------------------------------------------------------------
(* Status classifier and aggregator *)

\* get_short_email (main.rs 79-81): an email is the sequence of its pieces
\* between '@' signs; split('@').next() is the first.
get_short_email(email) == email[1]

\* rate_limits.values().filter(|r| r.is_rate_limited).count() (main.rs 118, 198)
CountLimited(rate_limits, order) ==
    Len(SelectSeq(ValuesIn(rate_limits, order), LAMBDA r : r.is_rate_limited))

\* get_account_status with the disabled test after the rate-limit test.
get_account_status_limited_first(account, order) ==
    IF UnwrapOr(account.is_invalid, FALSE) THEN [status |-> "invalid", color |-> "RED"]
    ELSE IF account.model_rate_limits.some
            /\ CountLimited(account.model_rate_limits.v, order) > 0
    THEN [status |-> "limited", color |-> "YELLOW"]
    ELSE IF ~UnwrapOr(account.enabled, TRUE) THEN [status |-> "disabled", color |-> "DIM"]
    ELSE [status |-> "ok", color |-> "GREEN"]

\* get_account_status (main.rs 110-124); order is the iteration order of
\* model_rate_limits when it is present.
get_account_status(account, order) ==
    IF UnwrapOr(account.is_invalid, FALSE) THEN [status |-> "invalid", color |-> "RED"]
    ELSE IF ~UnwrapOr(account.enabled, TRUE) THEN [status |-> "disabled", color |-> "DIM"]
    ELSE IF account.model_rate_limits.some
            /\ CountLimited(account.model_rate_limits.v, order) > 0
    THEN [status |-> "limited", color |-> "YELLOW"]
    ELSE [status |-> "ok", color |-> "GREEN"]

\* r.values().any(|l| l.is_rate_limited) (main.rs 134)
AnyLimited(rate_limits, order) ==
    \E i \in 1..Len(order) : rate_limits[order[i]].is_rate_limited

\* Bucket without the enabled test: every other account is available.
BucketIgnoringEnabled(a, order) ==
    IF UnwrapOr(a.is_invalid, FALSE) THEN "invalid"
    ELSE IF a.model_rate_limits.some /\ AnyLimited(a.model_rate_limits.v, order)
    THEN "rate_limited"
    ELSE "available"

\* The bucket count_stats puts one account in (main.rs 132-138).
Bucket(a, order) ==
    IF UnwrapOr(a.is_invalid, FALSE) THEN "invalid"
    ELSE IF a.model_rate_limits.some /\ AnyLimited(a.model_rate_limits.v, order)
    THEN "rate_limited"
    ELSE IF UnwrapOr(a.enabled, TRUE) THEN "available"
    ELSE "none"

\* count_stats (main.rs 126-141); orders[i] is the iteration order of account
\* i's model_rate_limits.
count_stats(accounts, orders) ==
    LET n(b) == Cardinality({i \in 1..Len(accounts) : Bucket(accounts[i], orders[i]) = b})
    IN  [available |-> n("available"), rate_limited |-> n("rate_limited"),
         invalid |-> n("invalid")]

-----------------------------------------------------------------------------
(* Table renderer: print_table (main.rs 167-274) *)

\* Pct with the product rounded to the nearest integer.
PctRounded(remaining_fraction) ==
    LET product == remaining_fraction * 100
    IN  IF product <= 0 THEN 0 ELSE (product + 500) \div 1000

\* (quota.remaining_fraction * 100.0) as u32 (main.rs 248): the product, in
\* thousandths of a percent, cast to u32.  The cast drops the fraction and
\* gives 0 for a negative product; it saturates at u32::MAX only for a
\* fraction of 42949672.96 or more, which no fraction of the model reaches.
Pct(remaining_fraction) ==
    LET product == remaining_fraction * 100
    IN  IF product <= 0 THEN 0 ELSE product \div 1000

\* Iterator::min (main.rs 215): the first of the least elements by Ord.
RECURSIVE MinFrom(_, _, _)
MinFrom(best, strs, i) ==
    IF i > Len(strs) THEN best
    ELSE MinFrom(IF StrLess(strs[i], best) THEN strs[i] ELSE best, strs, i + 1)
IteratorMin(strs) == IF Len(strs) = 0 THEN None ELSE Some(MinFrom(strs[1], strs, 2))

\* limits.values().filter_map(|q| q.reset_time.as_ref()) (main.rs 213-214)
ResetTimes(limits, order) ==
    LET present == SelectSeq(ValuesIn(limits, order), LAMBDA q : q.reset_time.some)
    IN  [i \in 1..Len(present) |-> present[i].reset_time.v]

NA == [shown |-> "N/A"]
Never == [shown |-> "never"]

\* The "Quota Reset" column (main.rs 211-222).
QuotaReset(account, order) ==
    IF ~account.limits.some THEN NA
    ELSE LET least == IteratorMin(ResetTimes(account.limits.v, order))
         IN  IF ~least.some THEN NA
             ELSE LET d == ParseRfc3339(least.v)
                  IN  IF d.ok THEN format_timestamp(d.v) ELSE NA

\* The "Status" column (main.rs 196-205).
StatusDisplay(account, status, order) ==
    IF status = "limited" /\ account.model_rate_limits.some
    THEN [text |-> "limited",
          limited |-> CountLimited(account.model_rate_limits.v, order),
          total |-> Cardinality(DOMAIN account.model_rate_limits.v)]
    ELSE [text |-> status]

\* One row of the account summary table (main.rs 192-228); o.rates and
\* o.limits are the iteration orders of the account's two maps.
SummaryRow(account, o) ==
    LET st == get_account_status(account, o.rates)
    IN  [email |-> get_short_email(account.email),
         status |-> st.status,
         color |-> st.color,
         status_display |-> StatusDisplay(account, st.status, o.rates),
         last_used |-> IF account.last_used.some
                       THEN format_timestamp(account.last_used.v) ELSE Never,
         reset |-> QuotaReset(account, o.limits)]

\* Cell with the low threshold inclusive (<= 0.3) and the strict test for 0.
CellOffByOne(account, model, utcNow) ==
    IF account.limits.some /\ model \in DOMAIN account.limits.v
    THEN LET quota == account.limits.v[model]
             pct == Pct(quota.remaining_fraction)
             is_limited == /\ account.model_rate_limits.some
                           /\ model \in DOMAIN account.model_rate_limits.v
                           /\ account.model_rate_limits.v[model].is_rate_limited
         IN  IF quota.remaining_fraction < 0 \/ is_limited
             THEN IF quota.reset_time.some
                  THEN [color |-> "RED", label |-> "pct_wait", pct |-> pct,
                        wait |-> format_reset_time(quota.reset_time.v, utcNow)]
                  ELSE [color |-> "RED", label |-> "pct", pct |-> pct]
             ELSE IF quota.remaining_fraction <= 300
             THEN [color |-> "YELLOW", label |-> "pct", pct |-> pct]
             ELSE [color |-> "GREEN", label |-> "pct", pct |-> pct]
    ELSE [color |-> "DIM", label |-> "N/A"]

\* One cell of the quota grid (main.rs 246-269).
Cell(account, model, utcNow) ==
    IF account.limits.some /\ model \in DOMAIN account.limits.v
    THEN LET quota == account.limits.v[model]
             pct == Pct(quota.remaining_fraction)
             is_limited == /\ account.model_rate_limits.some
                           /\ model \in DOMAIN account.model_rate_limits.v
                           /\ account.model_rate_limits.v[model].is_rate_limited
         IN  IF quota.remaining_fraction <= 0 \/ is_limited
             THEN IF quota.reset_time.some
                  THEN [color |-> "RED", label |-> "pct_wait", pct |-> pct,
                        wait |-> format_reset_time(quota.reset_time.v, utcNow)]
                  ELSE [color |-> "RED", label |-> "pct", pct |-> pct]
             ELSE IF quota.remaining_fraction < 300
             THEN [color |-> "YELLOW", label |-> "pct", pct |-> pct]
             ELSE [color |-> "GREEN", label |-> "pct", pct |-> pct]
    ELSE [color |-> "DIM", label |-> "N/A"]

\* One row of the quota grid (main.rs 242-273).
GridRow(accounts, model, utcNow) ==
    [model |-> model,
     cells |-> [i \in 1..Len(accounts) |-> Cell(accounts[i], model, utcNow)]]

\* The rows of the grid with, after the server's models, a row for every
\* other model that is a key of some account's limits.
GridWithKeys(data, utcNow) ==
    LET keys == UNION {IF data.accounts[i].limits.some
                       THEN DOMAIN data.accounts[i].limits.v ELSE {} :
                          i \in 1..Len(data.accounts)}
        listed == {data.models[r] : r \in 1..Len(data.models)}
        others == keys \ listed
        more == CHOOSE q \in [1..Cardinality(others) -> others] :
                    \A i, j \in 1..Cardinality(others) : i # j => q[i] # q[j]
        rows == data.models \o more
    IN  [r \in 1..Len(rows) |-> GridRow(data.accounts, rows[r], utcNow)]

\* The quota grid (main.rs 242-273): a row per entry of data.models.
Grid(data, utcNow) ==
    [r \in 1..Len(data.models) |-> GridRow(data.accounts, data.models[r], utcNow)]

\* print_table (main.rs 167-274): everything it prints.
print_table(data, orders, utcNow) ==
    LET n == Len(data.accounts)
        stats == count_stats(data.accounts, [i \in 1..n |-> orders[i].rates])
    IN  [timestamp |-> IF data.timestamp.some
                       THEN [shown |-> "server", text |-> data.timestamp.v]
                       ELSE format_timestamp(utcNow),
         total |-> n,
         available |-> stats.available,
         rate_limited |-> stats.rate_limited,
         invalid |-> stats.invalid,
         rows |-> [i \in 1..n |-> SummaryRow(data.accounts[i], orders[i])],
         grid |-> Grid(data, utcNow)]

\* The iteration orders of every account's maps (<< >> for an absent map).
MapOrders(map) == IF map.some THEN Orders(map.v) ELSE {<< >>}
RECURSIVE OrdersOfFirst(_, _)
OrdersOfFirst(accounts, n) ==
    IF n = 0 THEN {<< >>}
    ELSE {Append(os, [rates |-> r, limits |-> l]) :
             os \in OrdersOfFirst(accounts, n - 1),
             r \in MapOrders(accounts[n].model_rate_limits),
             l \in MapOrders(accounts[n].limits)}
AccountOrders(accounts) == OrdersOfFirst(accounts, Len(accounts))

-----------------------------------------------------------------------------
(* Responses the server may give (inputs of the poll loop) *)

Alice == JObj(<<Member("email", JStr(<<"alice", "example.com">>))>>)
Bob == JObj(<<Member("email", JStr(<<"bob", "example.com">>)),
              Member("enabled", JBool(FALSE)),
              Member("isInvalid", JNull),
              Member("modelRateLimits",
                     JObj(<<Member("gemini", JObj(<<Member("isRateLimited", JBool(TRUE))>>))>>)),
              Member("limits",
                     JObj(<<Member("gemini", JObj(<<Member("remainingFraction", JNum(500))>>))>>)),
              Member("lastUsed", JNum(1000))>>)
NoEmail == JObj(<<Member("enabled", JBool(TRUE))>>)

TimestampMembers ==
    {<< >>, <<Member("timestamp", JStr("10:00:00 AM"))>>, <<Member("timestamp", JNull)>>}
AccountsMembers ==
    {<< >>,
     <<Member("accounts", JArr(<< >>))>>,
     <<Member("accounts", JArr(<<Alice, Bob>>))>>,
     <<Member("accounts", JArr(<<NoEmail>>))>>}
ModelsMembers ==
    {<<Member("models", JArr(<< >>))>>, <<Member("models", JArr(<<JStr("gemini")>>))>>}

\* A small payload to sit, serialized, in a "result" member.
Nested == JsonText(JObj(<<Member("accounts", JArr(<<Alice>>)),
                          Member("models", JArr(<< >>))>>))
ExtraMembers ==
    {<< >>,
     <<Member("version", JNum(2))>>,
     <<Member("result", JNum(0))>>,
     <<Member("result", JStr("cached"))>>,
     <<Member("result", JStrOfText(Nested))>>}

\* Objects with the members of the direct shape (some lack a required one),
\* with or without a member the direct shape does not name.
Payloads ==
    {JsonText(JObj(ts \o as \o ms \o ex)) :
        ts \in TimestampMembers, as \in AccountsMembers, ms \in ModelsMembers,
        ex \in ExtraMembers}

\* {"result": <text serialized as a JSON string>}
Envelope(text) == JsonText(JObj(<<Member("result", JStrOfText(text))>>))

Bodies ==
    Payloads \cup {Envelope(p) : p \in Payloads}
    \cup {NotJson("<html>"), JsonText(JNull), JsonText(JArr(<<JStrOfText(Nested)>>)),
          Envelope(Envelope(Nested)), Envelope(NotJson("oops"))}

Responses ==
    {[transport |-> "refused"]}
    \cup {[transport |-> "ok", status |-> 200, text |-> b] : b \in Bodies}
    \cup {[transport |-> "ok", status |-> 500, text |-> NotJson("<html>")]}

-----------------------------------------------------------------------------
(* Poll loop: main (main.rs 276-300) *)

\* main.rs 291
ShouldBreakOnceOnly(o, i) == o
ShouldBreak(o, i) == o \/ i = 0

\* Utc::now() when the process starts: day 1, 10:00:00.000
StartTime == 24 * MsPerHour + 10 * MsPerHour

Idle == [shown |-> "nothing"]

Init ==
    /\ pc = "fetching"
    /\ once \in BOOLEAN
    /\ interval \in 0..MaxInterval
    /\ cycles = 0
    /\ waits = 0
    /\ slept = 0
    /\ body = [transport |-> "none"]
    /\ decoded = Err("none")
    /\ screen = "none"
    /\ snapshot = Idle
    /\ now = StartTime
    /\ out = Idle

\* One pass of the loop body (main.rs 281-293): clear, fetch, print the table
\* or the error, then leave the loop or go to sleep.
Cycle(resp) ==
    /\ pc = "fetching"
    /\ cycles < MaxCycles
    /\ body' = resp
    /\ decoded' = FetchData(resp)
    /\ IF decoded'.ok
       THEN /\ screen' = "table"
            /\ snapshot' = decoded'.v
            /\ \E os \in AccountOrders(decoded'.v.accounts) :
                   out' = print_table(decoded'.v, os, now)
       ELSE /\ screen' = "error"
            /\ snapshot' = Idle
            /\ out' = [shown |-> "error", error |-> decoded'.err]
    /\ cycles' = cycles + 1
    /\ pc' = IF ShouldBreak(once, interval) THEN "exited" ELSE "waiting"
    /\ UNCHANGED <<once, interval, waits, slept, now>>

\* tokio::time::sleep(interval) returns (main.rs 295-296).
Wake ==
    /\ pc = "waiting"
    /\ waits' = waits + 1
    /\ slept' = slept + interval
    /\ now' = now + interval * MsPerSecond
    /\ pc' = "fetching"
    /\ UNCHANGED <<once, interval, cycles, body, decoded, screen, snapshot, out>>

Next ==
    \/ \E resp \in Responses : Cycle(resp)
    \/ Wake

Spec == Init /\ [][Next]_vars

OneShot == once \/ interval = 0

\* A valid direct-shape payload: a JSON object that the direct parse accepts.
ValidDirect(text) ==
    text.json /\ text.value.t = "object" /\ ParseApiResponse(text).ok

\* C2: for every valid direct-shape payload, the decode step gives the same
\* result on the payload as on the payload wrapped as
\* {"result": "<payload serialized as a JSON string>"}.
C2_DecoderTransparent ==
    (body.transport = "ok" /\ body.status = 200 /\ ValidDirect(body.text))
        => decoded = DecodeBody(Envelope(body.text))

\* C3: the loop exits iff one-shot mode is set or the interval is 0, and then
\* right after its first cycle, whatever that cycle printed; in recurring
\* mode every cycle, failed or not, is followed by exactly one sleep of the
\* configured interval before the next fetch, and the process never exits.
C3_PollLoop ==
    /\ pc = "exited" => OneShot /\ cycles = 1 /\ waits = 0
    /\ (OneShot /\ cycles >= 1) => pc = "exited"
    /\ ~OneShot =>
          /\ pc # "exited"
          /\ pc = "waiting" => cycles = waits + 1
          /\ pc = "fetching" => cycles = waits
          /\ slept = waits * interval

\* A failed second cycle in recurring mode, slept through, about to fetch.
C3_Witness ==
    /\ ~OneShot /\ pc = "fetching" /\ cycles = 2 /\ waits = 2 /\ screen = "error"

-----------------------------------------------------------------------------
(* Classifier and aggregator on decoded accounts *)

ModelNames == {"gemini", "claude"}
OptBool == {None, Some(TRUE), Some(FALSE)}

\* The key sets of the maps: none, one or both of the model names.
KeySets == {{}, {"gemini"}, ModelNames}

\* Option<HashMap<String, ModelRateLimit>> over the model names
RateLimitMaps ==
    {None} \cup
    {Some(m) : m \in UNION {[ks -> {[is_rate_limited |-> b] : b \in BOOLEAN}] :
                              ks \in KeySets}}

\* Accounts as the classifier and the aggregator see them (struct Account,
\* main.rs 31-44): every combination of the three fields they read.
StatusAccounts ==
    {[email |-> <<"alice", "example.com">>, enabled |-> e, limits |-> None,
      model_rate_limits |-> r, is_invalid |-> v, last_used |-> None] :
        e \in OptBool, r \in RateLimitMaps, v \in OptBool}

SeqsUpTo(S, n) == UNION {[1..k -> S] : k \in 0..n}

StatusSnapshots ==
    {[timestamp |-> None, accounts |-> as, models |-> << >>] :
        as \in SeqsUpTo(StatusAccounts, MaxAccounts)}

InitStatus ==
    /\ pc = "decoded"
    /\ snapshot \in StatusSnapshots
    /\ out = Idle
    /\ once = TRUE
    /\ interval = 0
    /\ cycles = 0
    /\ waits = 0
    /\ slept = 0
    /\ body = [transport |-> "none"]
    /\ decoded = Err("none")
    /\ screen = "none"
    /\ now = StartTime

\* print_table's header: count_stats over the accounts (main.rs 171-182).
Header ==
    /\ pc = "decoded"
    /\ \E os \in AccountOrders(snapshot.accounts) :
          out' = [stats |-> count_stats(snapshot.accounts,
                                        [i \in 1..Len(snapshot.accounts) |-> os[i].rates])]
    /\ pc' = "counted"
    /\ UNCHANGED <<once, interval, cycles, waits, slept, body, decoded, screen,
                   snapshot, now>>

\* print_table's summary rows: get_account_status per account (main.rs 192-194).
StatusRows ==
    /\ pc = "counted"
    /\ \E os \in AccountOrders(snapshot.accounts) :
          out' = [stats |-> out.stats,
                  statuses |-> [i \in 1..Len(snapshot.accounts) |->
                                   get_account_status(snapshot.accounts[i], os[i].rates)]]
    /\ pc' = "classified"
    /\ UNCHANGED <<once, interval, cycles, waits, slept, body, decoded, screen,
                   snapshot, now>>

NextStatus == Header \/ StatusRows

SpecStatus == InitStatus /\ [][NextStatus]_vars

\* The claims' own reading of an account.
IsInvalid(a) == a.is_invalid = Some(TRUE)
IsDisabled(a) == a.enabled = Some(FALSE)
HasLimitedModel(a) ==
    /\ a.model_rate_limits.some
    /\ \E k \in DOMAIN a.model_rate_limits.v : a.model_rate_limits.v[k].is_rate_limited
PriorityStatus(a) ==
    IF IsInvalid(a) THEN "invalid"
    ELSE IF IsDisabled(a) THEN "disabled"
    ELSE IF HasLimitedModel(a) THEN "limited"
    ELSE "ok"

\* C1: get_account_status picks the status by the priority invalid >
\* disabled > limited > ok, and picks the same one under every iteration
\* order of the rate-limit mapping.
C1_StatusPriority ==
    pc = "classified" =>
        \A i \in 1..Len(snapshot.accounts) :
            LET a == snapshot.accounts[i]
            IN  /\ out.statuses[i].status = PriorityStatus(a)
                /\ \A o \in MapOrders(a.model_rate_limits) :
                       get_account_status(a, o) = out.statuses[i]

\* A disabled account with one limited and one free model has been classified.
C1_Witness ==
    /\ pc = "classified"
    /\ \E i \in 1..Len(snapshot.accounts) :
          LET a == snapshot.accounts[i]
          IN  /\ IsDisabled(a) /\ ~IsInvalid(a) /\ HasLimitedModel(a)
              /\ Cardinality(DOMAIN a.model_rate_limits.v) = 2
              /\ out.statuses[i].status = "disabled"

StatsSum == out.stats.available + out.stats.rate_limited + out.stats.invalid
DisabledOtherwiseOk(a) == IsDisabled(a) /\ ~IsInvalid(a) /\ ~HasLimitedModel(a)

\* C4: available + rate_limited + invalid is at most the number of accounts,
\* and equals it iff no account is disabled while neither invalid nor
\* rate-limited.
C4_CountsBound ==
    pc \in {"counted", "classified"} =>
        /\ StatsSum <= Len(snapshot.accounts)
        /\ StatsSum = Len(snapshot.accounts)
              <=> ~\E i \in 1..Len(snapshot.accounts) :
                     DisabledOtherwiseOk(snapshot.accounts[i])

\* Two accounts, one of them disabled and otherwise ok, counted: sum 1 of 2.
C4_Witness ==
    /\ pc = "counted"
    /\ Len(snapshot.accounts) = 2
    /\ DisabledOtherwiseOk(snapshot.accounts[1])
    /\ StatsSum = 1

CountOf(st) == Cardinality({i \in 1..Len(snapshot.accounts) : out.statuses[i].status = st})

\* C10: the header counts agree with the per-row statuses: invalid count =
\* rows classified invalid, rate-limited count = rows classified limited,
\* available count = rows classified ok.
C10_CountsMirrorStatuses ==
    pc = "classified" =>
        /\ out.stats.invalid = CountOf("invalid")
        /\ out.stats.rate_limited = CountOf("limited")
        /\ out.stats.available = CountOf("ok")

-----------------------------------------------------------------------------
(* Countdown: format_reset_time on reset strings *)

MaxDay == 2

D2(n) == <<48 + (n \div 10), 48 + (n % 10)>>
D3(n) == <<48 + (n \div 100), 48 + ((n \div 10) % 10), 48 + (n % 10)>>

\* The characters of DDTHH:MM:SS.mmm and the offset: Z for 0, else +HH:00 or
\* -HH:00.
Rfc3339(day, hour, minute, second, milli, offsetHours) ==
    D2(day) \o <<84>> \o D2(hour) \o <<58>> \o D2(minute) \o <<58>> \o D2(second)
    \o <<46>> \o D3(milli)
    \o (IF offsetHours = 0 THEN <<90>>
        ELSE IF offsetHours > 0 THEN <<43>> \o D2(offsetHours) \o <<58, 48, 48>>
        ELSE <<45>> \o D2(-offsetHours) \o <<58, 48, 48>>)

\* "soon", and a string of the right shape with hour 25
Unparseable == {<<115, 111, 111, 110>>, Rfc3339(1, 25, 0, 0, 0, 0)}

ResetStrings ==
    {Rfc3339(d, h, m, sec, ms, off) :
        d \in 1..MaxDay, h \in {9, 10, 11}, m \in {0, 5, 59}, sec \in {0, 30},
        ms \in {0, 1, 500, 999}, off \in {-1, 0, 1}}
    \cup Unparseable

InitCountdown ==
    /\ pc = "quota"
    /\ snapshot \in {[reset_time |-> r] : r \in ResetStrings}
    /\ now \in {StartTime, StartTime + 500}
    /\ out = Idle
    /\ once = TRUE
    /\ interval = 0
    /\ cycles = 0
    /\ waits = 0
    /\ slept = 0
    /\ body = [transport |-> "none"]
    /\ decoded = Err("none")
    /\ screen = "none"

\* format_reset_time(t) (main.rs 256)
FormatResetTime ==
    /\ pc = "quota"
    /\ out' = format_reset_time(snapshot.reset_time, now)
    /\ pc' = "formatted"
    /\ UNCHANGED <<once, interval, cycles, waits, slept, body, decoded, screen,
                   snapshot, now>>

NextCountdown == FormatResetTime

SpecCountdown == InitCountdown /\ [][NextCountdown]_vars

\* The time left until the reset instant, in milliseconds.
TimeLeft == ParseRfc3339(snapshot.reset_time).v - now
Breakdown(d) ==
    LET h == d \div MsPerHour
        m == (d \div MsPerMinute) % 60
        sec == (d \div MsPerSecond) % 60
    IN  IF d >= MsPerHour THEN [kind |-> "hms", h |-> h, m |-> m, s |-> sec]
        ELSE IF d >= MsPerMinute THEN [kind |-> "ms", m |-> m, s |-> sec]
        ELSE [kind |-> "s", s |-> sec]

\* C9 as stated: "now" when the instant is at or before the current time,
\* otherwise the breakdown of the time left from its largest non-zero unit;
\* an instant strictly in the future never renders as "now".
C9_CountdownAsStated ==
    (pc = "formatted" /\ ParseRfc3339(snapshot.reset_time).ok) =>
        IF TimeLeft <= 0 THEN out = [kind |-> "now"] ELSE out = Breakdown(TimeLeft)

\* C9, amended: "now" when less than one whole second is left (the instant
\* is past, present, or under a second ahead), otherwise the breakdown of
\* the time left from its largest non-zero unit.
C9_Countdown ==
    (pc = "formatted" /\ ParseRfc3339(snapshot.reset_time).ok) =>
        IF TimeLeft < MsPerSecond THEN out = [kind |-> "now"] ELSE out = Breakdown(TimeLeft)

\* 1 hour 5 minutes 30 seconds ahead has been rendered as 1h5m30s.
C9_Witness ==
    /\ pc = "formatted"
    /\ ParseRfc3339(snapshot.reset_time).ok
    /\ TimeLeft = MsPerHour + 5 * MsPerMinute + 30 * MsPerSecond
    /\ out = [kind |-> "hms", h |-> 1, m |-> 5, s |-> 30]

-----------------------------------------------------------------------------
(* One cell of the quota grid *)

\* Remaining fractions in thousandths: below 0, 0, 0.005, 0.2, 0.299, 0.3,
\* 0.5, 0.999 and 1.
Fractions == {-100, 0, 5, 200, 299, 300, 500, 999, 1000}

\* A reset time 1 h 5 min 30 s after StartTime, and one an hour before it.
ResetAhead == Rfc3339(1, 11, 5, 30, 0, 0)
ResetPast == Rfc3339(1, 9, 0, 0, 0, 0)

CellQuotas ==
    {[remaining_fraction |-> f, reset_time |-> r] :
        f \in Fractions, r \in {None, Some(ResetAhead), Some(ResetPast)}}

\* Option<HashMap<String, ModelQuota>> over the model names
LimitMaps(quotas) ==
    {None} \cup {Some(m) : m \in UNION {[ks -> quotas] : ks \in KeySets}}

CellAccounts ==
    {[email |-> <<"alice", "example.com">>, enabled |-> None, limits |-> l,
      model_rate_limits |-> r, is_invalid |-> None, last_used |-> None] :
        l \in LimitMaps(CellQuotas), r \in RateLimitMaps}

InitCell ==
    /\ pc = "cell"
    /\ snapshot \in {[account |-> a, model |-> m] :
                        a \in CellAccounts, m \in ModelNames \cup {"gpt"}}
    /\ now = StartTime
    /\ out = Idle
    /\ once = TRUE
    /\ interval = 0
    /\ cycles = 0
    /\ waits = 0
    /\ slept = 0
    /\ body = [transport |-> "none"]
    /\ decoded = Err("none")
    /\ screen = "none"

\* The cell of one account in one model row (main.rs 246-270).
RenderCell ==
    /\ pc = "cell"
    /\ out' = Cell(snapshot.account, snapshot.model, now)
    /\ pc' = "rendered"
    /\ UNCHANGED <<once, interval, cycles, waits, slept, body, decoded, screen,
                   snapshot, now>>

NextCell == RenderCell

SpecCell == InitCell /\ [][NextCell]_vars

\* The cell's account has a quota entry for the cell's model.
HasQuota ==
    /\ snapshot.account.limits.some
    /\ snapshot.model \in DOMAIN snapshot.account.limits.v
TheQuota == snapshot.account.limits.v[snapshot.model]
Flagged ==
    /\ snapshot.account.model_rate_limits.some
    /\ snapshot.model \in DOMAIN snapshot.account.model_rate_limits.v
    /\ snapshot.account.model_rate_limits.v[snapshot.model].is_rate_limited
Exhausted == TheQuota.remaining_fraction <= 0 \/ Flagged

\* C5: with a quota entry, the cell is exhausted (red) iff the fraction is
\* <= 0 or the model is flagged rate-limited, else low (yellow) iff the
\* fraction is < 0.3, else healthy (green); the "(wait ...)" suffix is there
\* exactly when the cell is exhausted and the quota has a reset time.
C5_CellStyle ==
    (pc = "rendered" /\ HasQuota) =>
        /\ out.color = (IF Exhausted THEN "RED"
                        ELSE IF TheQuota.remaining_fraction < 300 THEN "YELLOW"
                        ELSE "GREEN")
        /\ out.label = "pct_wait" <=> (Exhausted /\ TheQuota.reset_time.some)
        /\ out.label \in {"pct", "pct_wait"}

\* A healthy fraction on a rate-limited model with a reset time: red, with
\* the wait suffix.
C5_Witness ==
    /\ pc = "rendered" /\ HasQuota /\ Flagged
    /\ TheQuota.remaining_fraction = 500 /\ TheQuota.reset_time.some
    /\ out.color = "RED" /\ out.label = "pct_wait"

InUnit(f) == f >= 0 /\ f <= 1000

-----------------------------------------------------------------------------
(* The quota grid *)

GridQuota == [remaining_fraction |-> 500, reset_time |-> None]
SpentQuota == [remaining_fraction |-> 0, reset_time |-> Some(ResetAhead)]

\* Limits with no entry, with an entry for gemini only, and with entries for
\* gemini and claude; claude is never in the server's list, gpt is in no map.
GridLimits ==
    {None,
     Some([k \in {"gemini"} |-> GridQuota]),
     Some([k \in ModelNames |-> IF k = "gemini" THEN SpentQuota ELSE GridQuota])}
GridRates ==
    {None, Some([k \in ModelNames \cup {"gpt"} |-> [is_rate_limited |-> TRUE]])}
GridFlags ==
    {[invalid |-> None, enabled |-> None],
     [invalid |-> Some(TRUE), enabled |-> None],
     [invalid |-> None, enabled |-> Some(FALSE)]}

GridAccounts ==
    {[email |-> <<"alice", "example.com">>, enabled |-> f.enabled, limits |-> l,
      model_rate_limits |-> r, is_invalid |-> f.invalid, last_used |-> None] :
        l \in GridLimits, r \in GridRates, f \in GridFlags}

GridSnapshots ==
    {[timestamp |-> None, accounts |-> as, models |-> ms] :
        as \in SeqsUpTo(GridAccounts, MaxAccounts),
        ms \in SeqsUpTo({"gemini", "gpt"}, MaxModels)}

InitGrid ==
    /\ pc = "summary printed"
    /\ snapshot \in GridSnapshots
    /\ now = StartTime
    /\ out = Idle
    /\ once = TRUE
    /\ interval = 0
    /\ cycles = 0
    /\ waits = 0
    /\ slept = 0
    /\ body = [transport |-> "none"]
    /\ decoded = Err("none")
    /\ screen = "none"

\* The model rows of print_table (main.rs 242-273).
PrintGrid ==
    /\ pc = "summary printed"
    /\ out' = [grid |-> Grid(snapshot, now)]
    /\ pc' = "grid printed"
    /\ UNCHANGED <<once, interval, cycles, waits, slept, body, decoded, screen,
                   snapshot, now>>

NextGrid == PrintGrid

SpecGrid == InitGrid /\ [][NextGrid]_vars

LacksQuota(a, model) == ~a.limits.some \/ model \notin DOMAIN a.limits.v

\* C7: the grid has one row per entry of the server's models list, in that
\* order, and so no row for a model that is only a key of an account's quota
\* mapping; and every cell of an account with no quota mapping or no entry
\* for the row's model is "N/A", whatever the account's status and its
\* rate-limit flag for that model.
C7_GridRows ==
    pc = "grid printed" =>
        /\ Len(out.grid) = Len(snapshot.models)
        /\ \A r \in 1..Len(out.grid) :
              /\ out.grid[r].model = snapshot.models[r]
              /\ Len(out.grid[r].cells) = Len(snapshot.accounts)
              /\ \A i \in 1..Len(snapshot.accounts) :
                     LacksQuota(snapshot.accounts[i], snapshot.models[r])
                         => out.grid[r].cells[i] = [color |-> "DIM", label |-> "N/A"]

\* An ok account with quota for gemini and claude, next to a disabled one
\* without limits whose every model is flagged rate-limited, in a grid of the
\* rows gpt and gemini: no claude row, the ok account's gpt cell and both
\* cells of the disabled account are "N/A".
C7_Witness ==
    /\ pc = "grid printed"
    /\ snapshot.models = <<"gpt", "gemini">>
    /\ Len(snapshot.accounts) = 2
    /\ PriorityStatus(snapshot.accounts[1]) = "ok"
    /\ snapshot.accounts[1].limits.some
    /\ DOMAIN snapshot.accounts[1].limits.v = ModelNames
    /\ PriorityStatus(snapshot.accounts[2]) = "disabled"
    /\ HasLimitedModel(snapshot.accounts[2])
    /\ ~snapshot.accounts[2].limits.some
    /\ out.grid[1].cells[1].label = "N/A"
    /\ out.grid[2].cells[1].label = "pct_wait"
    /\ out.grid[2].cells[2].label = "N/A"

-----------------------------------------------------------------------------
(* The "Quota Reset" column of the account summary *)

\* 10:00 at +02:00 (08:00 UTC), 09:00 UTC, 09:30 at -01:00 (10:30 UTC)
ResetEast == Rfc3339(1, 10, 0, 0, 0, 2)
ResetUtc == Rfc3339(1, 9, 0, 0, 0, 0)
ResetWest == Rfc3339(1, 9, 30, 0, 0, -1)

ResetQuotas ==
    {[remaining_fraction |-> f, reset_time |-> r] :
        f \in {0, 500}, r \in {None, Some(ResetEast), Some(ResetUtc)}}
    \cup {[remaining_fraction |-> 500, reset_time |-> Some(ResetWest)],
          [remaining_fraction |-> 500, reset_time |-> Some(<<115, 111, 111, 110>>)]}

ResetAccounts ==
    {[email |-> <<"alice", "example.com">>, enabled |-> None, limits |-> l,
      model_rate_limits |-> None, is_invalid |-> None, last_used |-> u] :
        l \in LimitMaps(ResetQuotas), u \in {None, Some(1500)}}

ResetSnapshots ==
    {[timestamp |-> None, accounts |-> as, models |-> << >>] :
        as \in SeqsUpTo(ResetAccounts, MaxAccounts)}

InitReset ==
    /\ pc = "header printed"
    /\ snapshot \in ResetSnapshots
    /\ now = StartTime
    /\ out = Idle
    /\ once = TRUE
    /\ interval = 0
    /\ cycles = 0
    /\ waits = 0
    /\ slept = 0
    /\ body = [transport |-> "none"]
    /\ decoded = Err("none")
    /\ screen = "none"

\* The account rows of print_table (main.rs 192-228).
PrintSummary ==
    /\ pc = "header printed"
    /\ \E os \in AccountOrders(snapshot.accounts) :
          out' = [rows |-> [i \in 1..Len(snapshot.accounts) |->
                               SummaryRow(snapshot.accounts[i], os[i])]]
    /\ pc' = "summary printed"
    /\ UNCHANGED <<once, interval, cycles, waits, slept, body, decoded, screen,
                   snapshot, now>>

NextReset == PrintSummary

SpecReset == InitReset /\ [][NextReset]_vars

\* The reset strings of an account's quota entries.
ResetsOf(a) ==
    IF a.limits.some
    THEN {a.limits.v[k].reset_time.v : k \in {j \in DOMAIN a.limits.v : a.limits.v[j].reset_time.some}}
    ELSE {}
EarliestInstant(a) ==
    CHOOSE t \in {ParseRfc3339(r).v : r \in ResetsOf(a)} :
        \A r \in ResetsOf(a) : t <= ParseRfc3339(r).v

\* C8: for an account with at least one reset time (all of them RFC3339),
\* the "Quota Reset" column shows the earliest reset instant among its quota
\* entries, earliest by the instant the strings denote; it shows "N/A" only
\* when the account has no reset time.
C8_EarliestReset ==
    pc = "summary printed" =>
        \A i \in 1..Len(snapshot.accounts) :
            LET a == snapshot.accounts[i]
            IN  /\ (ResetsOf(a) # {} /\ \A r \in ResetsOf(a) : ParseRfc3339(r).ok)
                      => out.rows[i].reset = format_timestamp(EarliestInstant(a))
                /\ out.rows[i].reset = NA => ~\E r \in ResetsOf(a) : ParseRfc3339(r).ok

====
